---- MODULE Spec2Model ----
(***************************************************************************)
(* Booking, session lifecycle and video-call negotiation of the therapy    *)
(* application, as the React pages implement them against the Firestore    *)
(* collections `therapistSlots` and `sessions`.                            *)
(*                                                                         *)
(* The store is shared; every browser tab (client) holds its own React     *)
(* state: a list of sessions read once when the page mounts, the list of   *)
(* available slots, the call it is in.  A handler that awaits two writes   *)
(* is two steps, so that other clients may act between them.  Every write  *)
(* and every call to the room provider may fail (the awaited promise       *)
(* rejects), which the handlers catch.                                     *)
(***************************************************************************)
EXTENDS Integers, Sequences, FiniteSets, TLC

\* ---------------------------------------------------------------- bounds
MaxSessions == 2
MaxTime == 6
MaxRooms == 2
NumSlots == 1
MaxAdded == 2

\* 5 * 60 * 1000 ms, in minutes: the clock of the model counts minutes.
CooldownMinutes == 5

\* --------------------------------------------------------------- clients
\* a1 and a2 are two tabs of patient p1, b1 is a tab of patient p2;
\* k1 and k2 are two tabs of the therapist t1, m1 is a tab of therapist t2.
PatientClients == {"a1", "a2", "b1"}
TherapistClients == {"k1", "k2", "m1"}
Clients == PatientClients \cup TherapistClients

\* users with role 'therapist'
Therapists == {"t1", "t2"}

\* user.id of the client (useUser()).
UserOf(c) ==
  IF c \in {"a1", "a2"} THEN "p1"
  ELSE IF c = "b1" THEN "p2"
  ELSE IF c = "m1" THEN "t2" ELSE "t1"

SlotIds == 1..NumSlots

\* therapistId of a slot document: the therapist who added it.  The slots
\* with an odd id are t1's, the others t2's.
SlotTherapist(s) == IF s % 2 = 1 THEN "t1" ELSE "t2"

\* timeRange values ("HH:mm - HH:mm") of one date.  The slots that exist at
\* the start all have the first one; they differ in their therapist.
TimeRanges == {"r1", "r2"}

SlotRange(s) == "r1"

VARIABLES
  slots,        \* collection therapistSlots: slot id -> document
  sessions,     \* collection sessions: sequence of documents, id = index
  avail,        \* availableSlots of each patient client
  selected,     \* selectedTherapist?.id of each patient client, or "none"
  view,         \* `sessions` React state of each client: id -> snapshot
  pc,           \* the handler a client has in flight, with its closure
  timer,        \* setTimeout(startVideoCall, 500) pending in a therapist tab
  active,       \* activeVideoCall of each client
  now,          \* wall clock, minutes
  roomsCreated, \* rooms the provider has created; the last room id
  tabs,         \* the browser tabs that are open
  winners,      \* per slot: patients told "booked successfully" since the
                \* last write of isBooked=false to it
  everCompleted, \* sessions whose stored status has been 'completed'
  provisionFailed, \* sessions for which createMeeting has failed while
                \* their stored call request was accepted
  removed,      \* the slot documents that have been deleted
  slotView,     \* `slots` of useTherapistSlots in each therapist tab:
                \* slot id -> isBooked as read
  addedSlots    \* the slot documents addSlot has created, in order

vars == <<slots, sessions, avail, selected, view, pc, timer, active, now,
          roomsCreated, tabs, winners, everCompleted, provisionFailed,
          removed, slotView, addedSlots>>

\* ------------------------------------------------------------ documents
Idle == [op |-> "idle", sess |-> 0, slot |-> 0, room |-> 0, range |-> "none"]

NoCall == [sess |-> 0, room |-> 0]

\* Of the timestamps the handlers write, the code reads back only
\* videoCallRequest.requestedAt.  videoCallEnded is kept as the time of the
\* write too (-1 while absent); the others (bookedAt, respondedAt,
\* videoCallStarted) are recorded as present or absent.
FreeSlot == [isBooked |-> FALSE, bookedBy |-> "none", bookedAt |-> FALSE]

BookedSlot(user) == [isBooked |-> TRUE, bookedBy |-> user, bookedAt |-> TRUE]

\* The document addDoc writes in bookSession; the call fields are absent
\* ("none", 0) until a call handler writes them.
NewSession(user, therapist, slot) ==
  [patientId |-> user, therapistId |-> therapist, slotId |-> slot, status |-> "pending",
   req |-> "none", requestedAt |-> 0, requestedBy |-> "none", respondedAt |-> FALSE,
   vcStatus |-> "none", room |-> 0, started |-> FALSE, ended |-> -1]

\* What the patient's Sessions page keeps of a session document it has read:
\* the fields its buttons and handlers read.
PatientView(s) ==
  [status |-> s.status, slotId |-> s.slotId, req |-> s.req,
   requestedAt |-> s.requestedAt, room |-> s.room]

\* The same for the therapist's Sessions page, which reads neither
\* requestedAt nor the room id of a listed session (videoCallStatus only
\* colours the card).
TherapistView(s) ==
  [status |-> s.status, slotId |-> s.slotId, req |-> s.req,
   requestedAt |-> 0, room |-> 0]

SessionIds == 1..Len(sessions)

\* The therapist's query without where('therapistId', '==', user.id): every
\* session is listed in every therapist's tab.
SessionsOfAnyTherapist(c) ==
  IF c \in TherapistClients
  THEN SessionIds
  ELSE {i \in SessionIds : sessions[i].patientId = UserOf(c)}

\* query(sessions, where('patientId' | 'therapistId', '==', user.id))
SessionsOf(c) ==
  IF c \in TherapistClients
  THEN {i \in SessionIds : sessions[i].therapistId = UserOf(c)}
  ELSE {i \in SessionIds : sessions[i].patientId = UserOf(c)}

\* setSessions(prev => prev.map(s => s.id === sessionId ? {...s, ...} : s))
MapView(c, i, new) ==
  IF i \in DOMAIN view[c]
  THEN [view EXCEPT ![c] = [j \in DOMAIN view[c] |-> IF j = i THEN new ELSE view[c][j]]]
  ELSE view

Init ==
  /\ slots = [s \in SlotIds |-> FreeSlot]
  /\ sessions = <<>>
  /\ avail = [c \in PatientClients |-> {}]
  /\ selected = [c \in PatientClients |-> "none"]
  /\ view = [c \in Clients |-> <<>>]
  /\ pc = [c \in Clients |-> Idle]
  /\ timer = [c \in TherapistClients |-> {}]
  /\ active = [c \in Clients |-> NoCall]
  /\ now = 0
  /\ roomsCreated = 0
  /\ tabs = {"a1", "b1", "k1", "k2", "m1"}
  /\ winners = [s \in SlotIds |-> {}]
  /\ everCompleted = {}
  /\ provisionFailed = {}
  /\ removed = {}
  /\ slotView = [c \in TherapistClients |-> <<>>]
  /\ addedSlots = <<>>

\* ------------------------------------------------------------- the clock
\* Date.now() and new Date(), in minutes since the start.
Tick ==
  /\ now < MaxTime
  /\ now' = now + 1
  /\ UNCHANGED <<slots, sessions, avail, selected, view, pc, timer, active,
                 roomsCreated, tabs, winners, everCompleted,
                 provisionFailed, removed, slotView,
                 addedSlots>>

\* ------------------------------------------- patient: Therapists page
\* Selecting a therapist and a date runs loadSlots: the slots of the
\* therapist that are not booked.
LoadSlots(c, t) ==
  /\ c \in tabs
  /\ pc[c] = Idle
  /\ selected' = [selected EXCEPT ![c] = t]
  /\ avail' = [avail EXCEPT ![c] =
                 {s \in SlotIds \ removed : SlotTherapist(s) = t /\ ~slots[s].isBooked}]
  /\ UNCHANGED <<slots, sessions, view, pc, timer, active, now, roomsCreated,
                 tabs, winners, everCompleted,
                 provisionFailed, removed, slotView,
                 addedSlots>>

\* bookSession, first await: addDoc(collection(db, 'sessions'), {...}).
\* A rejected addDoc is caught: alert, nothing written.
BookAddDoc(c, s, ok) ==
  /\ c \in tabs
  /\ pc[c] = Idle
  /\ selected[c] # "none"
  /\ s \in avail[c]
  /\ IF ok
     THEN /\ Len(sessions) < MaxSessions
          /\ sessions' = Append(sessions, NewSession(UserOf(c), selected[c], s))
          /\ pc' = [pc EXCEPT ![c] = [Idle EXCEPT !.op = "bookSlot", !.slot = s,
                                                  !.sess = Len(sessions) + 1]]
     ELSE UNCHANGED <<sessions, pc>>
  /\ UNCHANGED <<slots, avail, selected, view, timer, active, now, roomsCreated,
                 tabs, winners, everCompleted,
                 provisionFailed, removed, slotView,
                 addedSlots>>

\* bookSession, second await: updateDoc(slotRef, {isBooked: true, ...}),
\* then the local state and the alert 'Session booked successfully!'.
\* A rejected updateDoc is caught: alert 'Failed to book session', and the
\* session document of the first await stays.  updateDoc rejects when the
\* document has been deleted.
BookUpdateSlot(c, ok) ==
  /\ pc[c].op = "bookSlot"
  /\ ok => pc[c].slot \notin removed
  /\ LET s == pc[c].slot IN
     IF ok
     THEN /\ slots' = [slots EXCEPT ![s] = BookedSlot(UserOf(c))]
          /\ avail' = [avail EXCEPT ![c] = @ \ {s}]
          /\ selected' = [selected EXCEPT ![c] = "none"]
          /\ winners' = [winners EXCEPT ![s] = @ \cup {UserOf(c)}]
     ELSE UNCHANGED <<slots, avail, selected, winners>>
  /\ pc' = [pc EXCEPT ![c] = Idle]
  /\ UNCHANGED <<sessions, view, timer, active, now, roomsCreated, tabs,
                 everCompleted,
                 provisionFailed, removed, slotView,
                 addedSlots>>

\* --------------------------------------------- patient: Sessions page
\* Mounting the page reads the patient's sessions once; its React state
\* (the call it is in) starts empty.
PatientLoadSessions(c) ==
  /\ c \in tabs /\ c \in PatientClients
  /\ pc[c] = Idle
  /\ view' = [view EXCEPT ![c] = [i \in SessionsOf(c) |-> PatientView(sessions[i])]]
  /\ active' = [active EXCEPT ![c] = NoCall]
  /\ UNCHANGED <<slots, sessions, avail, selected, pc, timer, now, roomsCreated,
                 tabs, winners, everCompleted,
                 provisionFailed, removed, slotView,
                 addedSlots>>

\* canRequestAgain with <= for <: a request exactly five minutes old may be
\* repeated.
CanRequestAgainInclusive(requestedAt, t) == requestedAt <= t - CooldownMinutes

\* const canRequestAgain = requestedAt < fiveMinutesAgo
CanRequestAgain(requestedAt, t) == requestedAt < t - CooldownMinutes

\* The page with the cooldown of a pending request applied to a declined one
\* as well.
RequestButtonCooldownAfterDecline(v, t) ==
  /\ v.status = "confirmed"
  /\ \/ v.req = "none"
     \/ v.req \in {"pending", "declined"} /\ CanRequestAgain(v.requestedAt, t)

\* The branches of the page that render a button calling requestVideoCall:
\* no request yet, a pending one that is old enough, a declined one.
RequestButton(v, t) ==
  /\ v.status = "confirmed"
  /\ \/ v.req = "none"
     \/ v.req = "pending" /\ CanRequestAgain(v.requestedAt, t)
     \/ v.req = "declined"

\* requestVideoCall: updateDoc(sessionRef, {videoCallRequest: {status:
\* 'pending', requestedAt: new Date(), requestedBy: user.id}}): the whole
\* map is replaced, so respondedAt goes.
RequestVideoCall(c, i, ok) ==
  /\ c \in tabs /\ c \in PatientClients
  /\ pc[c] = Idle
  /\ active[c] = NoCall
  /\ i \in DOMAIN view[c]
  /\ RequestButton(view[c][i], now)
  /\ IF ok
     THEN /\ sessions' = [sessions EXCEPT ![i].req = "pending",
                                          ![i].requestedAt = now,
                                          ![i].requestedBy = UserOf(c),
                                          ![i].respondedAt = FALSE]
          /\ view' = MapView(c, i, [view[c][i] EXCEPT !.req = "pending",
                                                      !.requestedAt = now])
     ELSE UNCHANGED <<sessions, view>>
  /\ UNCHANGED <<slots, avail, selected, pc, timer, active, now, roomsCreated,
                 tabs, winners, everCompleted,
                 provisionFailed, removed, slotView,
                 addedSlots>>

\* joinVideoCall, from the 'Join Video Session' button of an accepted
\* request whose room id was read from the store.
JoinVideoCall(c, i) ==
  /\ c \in tabs /\ c \in PatientClients
  /\ pc[c] = Idle
  /\ active[c] = NoCall
  /\ i \in DOMAIN view[c]
  /\ view[c][i].status = "confirmed"
  /\ view[c][i].req = "accepted"
  /\ view[c][i].room # 0
  /\ active' = [active EXCEPT ![c] = [sess |-> i, room |-> view[c][i].room]]
  /\ UNCHANGED <<slots, sessions, avail, selected, view, pc, timer, now,
                 roomsCreated, tabs, winners, everCompleted,
                 provisionFailed, removed, slotView,
                 addedSlots>>

\* The patient's endVideoCall: setActiveVideoCall(null), no write.
PatientEndVideoCall(c) ==
  /\ c \in tabs /\ c \in PatientClients
  /\ active[c] # NoCall
  /\ active' = [active EXCEPT ![c] = NoCall]
  /\ UNCHANGED <<slots, sessions, avail, selected, view, pc, timer, now,
                 roomsCreated, tabs, winners, everCompleted,
                 provisionFailed, removed, slotView,
                 addedSlots>>

\* ------------------------------------------- therapist: Sessions page
\* Mounting the page reads the therapist's sessions once; a reload drops
\* the call the tab was in and its pending timers.
TherapistLoadSessions(k) ==
  /\ k \in tabs /\ k \in TherapistClients
  /\ pc[k] = Idle
  /\ view' = [view EXCEPT ![k] = [i \in SessionsOf(k) |-> TherapistView(sessions[i])]]
  /\ active' = [active EXCEPT ![k] = NoCall]
  /\ timer' = [timer EXCEPT ![k] = {}]
  /\ UNCHANGED <<slots, sessions, avail, selected, pc, now, roomsCreated, tabs,
                 winners, everCompleted,
                 provisionFailed, removed, slotView,
                 addedSlots>>

\* The buttons that call updateSessionStatus: 'Accept Booking' and 'Decline'
\* on a session listed as pending, 'Mark Complete' on one listed as confirmed.
StatusButton(v, newStatus) ==
  \/ v.status = "pending" /\ newStatus \in {"confirmed", "cancelled"}
  \/ v.status = "confirmed" /\ newStatus = "completed"

\* updateSessionStatus, first await: updateDoc(sessionRef, {status}).  Unless
\* the slot is to be released, the local list is updated right after it.
UpdateSessionStatus(k, i, newStatus, ok) ==
  /\ k \in tabs /\ k \in TherapistClients
  /\ pc[k] = Idle
  /\ active[k] = NoCall
  /\ i \in DOMAIN view[k]
  /\ StatusButton(view[k][i], newStatus)
  /\ IF ok
     THEN /\ sessions' = [sessions EXCEPT ![i].status = newStatus]
          /\ everCompleted' = IF newStatus = "completed"
                              THEN everCompleted \cup {i} ELSE everCompleted
          /\ IF newStatus = "cancelled" /\ view[k][i].slotId # 0
             THEN /\ pc' = [pc EXCEPT ![k] = [Idle EXCEPT !.op = "release", !.sess = i,
                                                        !.slot = view[k][i].slotId]]
                  /\ view' = view
             ELSE /\ view' = MapView(k, i, [view[k][i] EXCEPT !.status = newStatus])
                  /\ pc' = pc
     ELSE UNCHANGED <<sessions, view, pc, everCompleted>>
  /\ UNCHANGED <<slots, avail, selected, timer, active, now, roomsCreated, tabs,
                 winners, provisionFailed, removed, slotView,
                 addedSlots>>

\* updateSessionStatus('cancelled'), second await: updateDoc(slotRef,
\* {isBooked: false, bookedBy: null, bookedAt: null}) inside its own
\* try/catch that only logs; then the local list shows the session cancelled.
\* updateDoc rejects when the document has been deleted.
ReleaseSlot(k, ok) ==
  /\ pc[k].op = "release"
  /\ ok => pc[k].slot \notin removed
  /\ LET i == pc[k].sess
         s == pc[k].slot IN
     /\ IF ok
        THEN /\ slots' = [slots EXCEPT ![s] = FreeSlot]
             /\ winners' = [winners EXCEPT ![s] = {}]
        ELSE UNCHANGED <<slots, winners>>
     /\ view' = MapView(k, i, [view[k][i] EXCEPT !.status = "cancelled"])
  /\ pc' = [pc EXCEPT ![k] = Idle]
  /\ UNCHANGED <<sessions, avail, selected, timer, active, now, roomsCreated, tabs,
                 everCompleted,
                 provisionFailed, removed, slotView,
                 addedSlots>>

\* respondToVideoCallRequest, from 'Accept' and 'Decline' of a confirmed
\* session whose request is listed as pending: updateDoc(sessionRef,
\* {'videoCallRequest.status': response, 'videoCallRequest.respondedAt'}),
\* and on 'accepted' setTimeout(() => startVideoCall(...), 500).
RespondToVideoCallRequest(k, i, response, ok) ==
  /\ k \in tabs /\ k \in TherapistClients
  /\ pc[k] = Idle
  /\ active[k] = NoCall
  /\ i \in DOMAIN view[k]
  /\ view[k][i].status = "confirmed"
  /\ view[k][i].req = "pending"
  /\ IF ok
     THEN /\ sessions' = [sessions EXCEPT ![i].req = response,
                                          ![i].respondedAt = TRUE]
          /\ view' = MapView(k, i, [view[k][i] EXCEPT !.req = response])
          /\ timer' = IF response = "accepted"
                      THEN [timer EXCEPT ![k] = @ \cup {i}]
                      ELSE timer
     ELSE UNCHANGED <<sessions, view, timer>>
  /\ UNCHANGED <<slots, avail, selected, pc, active, now, roomsCreated, tabs,
                 winners, everCompleted,
                 provisionFailed, removed, slotView,
                 addedSlots>>

\* 'Start Video Call' of a confirmed session: rendered when the tab is not
\* in a call for it, disabled while its request is listed as pending.
StartButton(k, i) ==
  /\ active[k] = NoCall
  /\ i \in DOMAIN view[k]
  /\ view[k][i].status = "confirmed"
  /\ view[k][i].req # "pending"

\* startVideoCall without `if (!meetingId) throw`: with no room from the
\* provider it goes on to the write, with an empty room id.
CreateMeetingNoThrow(k, i, byTimer, ok) ==
  /\ k \in tabs /\ k \in TherapistClients
  /\ pc[k] = Idle
  /\ IF byTimer THEN i \in timer[k] ELSE StartButton(k, i)
  /\ timer' = IF byTimer THEN [timer EXCEPT ![k] = @ \ {i}] ELSE timer
  /\ IF ok
     THEN /\ roomsCreated < MaxRooms
          /\ roomsCreated' = roomsCreated + 1
          /\ pc' = [pc EXCEPT ![k] = [Idle EXCEPT !.op = "startWrite", !.sess = i,
                                                  !.room = roomsCreated + 1]]
          /\ UNCHANGED provisionFailed
     ELSE /\ provisionFailed' = IF sessions[i].req = "accepted"
                                THEN provisionFailed \cup {i} ELSE provisionFailed
          /\ pc' = [pc EXCEPT ![k] = [Idle EXCEPT !.op = "startWrite", !.sess = i]]
          /\ UNCHANGED roomsCreated
  /\ UNCHANGED <<slots, sessions, avail, selected, view, active, now, tabs, winners,
                 everCompleted, removed, slotView,
                 addedSlots>>

\* startVideoCall, first awaits: getAuthToken() and createMeeting({token}).
\* It is called by the button or by the timer set on accepting a request.
\* No room (a rejected fetch, or no roomId in the answer) throws before any
\* write.
CreateMeeting(k, i, byTimer, ok) ==
  /\ k \in tabs /\ k \in TherapistClients
  /\ pc[k] = Idle
  /\ IF byTimer THEN i \in timer[k] ELSE StartButton(k, i)
  /\ timer' = IF byTimer THEN [timer EXCEPT ![k] = @ \ {i}] ELSE timer
  /\ IF ok
     THEN /\ roomsCreated < MaxRooms
          /\ roomsCreated' = roomsCreated + 1
          /\ pc' = [pc EXCEPT ![k] = [Idle EXCEPT !.op = "startWrite", !.sess = i,
                                                  !.room = roomsCreated + 1]]
          /\ UNCHANGED provisionFailed
     ELSE /\ provisionFailed' = IF sessions[i].req = "accepted"
                                THEN provisionFailed \cup {i} ELSE provisionFailed
          /\ UNCHANGED <<roomsCreated, pc>>
  /\ UNCHANGED <<slots, sessions, avail, selected, view, active, now, tabs, winners,
                 everCompleted, removed, slotView,
                 addedSlots>>

\* startVideoCall, last await: updateDoc(sessionRef, {videoCallStarted,
\* videoCallStatus: 'active', videoCallRoomId, meetingId}), then
\* setActiveVideoCall (and the card's colour in the local list).
StartVideoCallWrite(k, ok) ==
  /\ pc[k].op = "startWrite"
  /\ LET i == pc[k].sess
         m == pc[k].room IN
     IF ok
     THEN /\ sessions' = [sessions EXCEPT ![i].vcStatus = "active",
                                          ![i].room = m,
                                          ![i].started = TRUE]
          /\ active' = [active EXCEPT ![k] = [sess |-> i, room |-> m]]
     ELSE UNCHANGED <<sessions, active>>
  /\ pc' = [pc EXCEPT ![k] = Idle]
  /\ UNCHANGED <<slots, avail, selected, view, timer, now, roomsCreated, tabs,
                 winners, everCompleted,
                 provisionFailed, removed, slotView,
                 addedSlots>>

\* The therapist's endVideoCall: returns at once when the tab is in no call;
\* else updateDoc(sessionRef, {videoCallEnded, videoCallStatus: 'ended'}) and
\* setActiveVideoCall(null).
EndVideoCall(k, ok) ==
  /\ k \in tabs /\ k \in TherapistClients
  /\ pc[k] = Idle
  /\ active[k] # NoCall
  /\ IF ok
     THEN /\ sessions' = [sessions EXCEPT ![active[k].sess].vcStatus = "ended",
                                          ![active[k].sess].ended = now]
          /\ active' = [active EXCEPT ![k] = NoCall]
     ELSE UNCHANGED <<sessions, active>>
  /\ UNCHANGED <<slots, avail, selected, view, pc, timer, now, roomsCreated, tabs,
                 winners, everCompleted,
                 provisionFailed, removed, slotView,
                 addedSlots>>

\* ---------------------------------------------- therapist: Slots page
\* useTherapistSlots, on mount: getDocs(query(therapistSlots,
\* where('therapistId', '==', therapistId), where('date', '==', ymd))), read
\* once.
TherapistLoadSlots(k) ==
  /\ k \in tabs /\ k \in TherapistClients
  /\ slotView' = [slotView EXCEPT ![k] =
                    [s \in {x \in SlotIds \ removed : SlotTherapist(x) = UserOf(k)}
                       |-> slots[s].isBooked]]
  /\ UNCHANGED <<slots, sessions, avail, selected, view, pc, timer, active, now,
                 roomsCreated, tabs, winners, everCompleted, provisionFailed, removed,
                 addedSlots>>

\* handleRemoveSlot and removeSlot, from the bin button of a listed slot,
\* disabled when the listed slot isBooked: deleteDoc(doc(db,
\* 'therapistSlots', slotId)), then the slot leaves the list.  A rejected
\* deleteDoc is caught: alert, nothing changes.  The fields of a deleted
\* document are gone.
RemoveSlot(k, s, ok) ==
  /\ k \in tabs /\ k \in TherapistClients
  /\ s \in DOMAIN slotView[k]
  /\ ~slotView[k][s]
  /\ IF ok
     THEN /\ removed' = removed \cup {s}
          /\ slots' = [slots EXCEPT ![s] = FreeSlot]
          /\ slotView' = [slotView EXCEPT ![k] =
                            [x \in DOMAIN slotView[k] \ {s} |-> slotView[k][x]]]
     ELSE UNCHANGED <<removed, slots, slotView>>
  /\ UNCHANGED <<sessions, avail, selected, view, pc, timer, active, now,
                 roomsCreated, tabs, winners, everCompleted, provisionFailed,
                 addedSlots>>

\* The (therapistId, timeRange) of the slot documents of the date: of those
\* that existed at the start and are not deleted, and of the added ones.
SlotTuples ==
  {<<SlotTherapist(s), SlotRange(s)>> : s \in SlotIds \ removed}
    \cup {<<addedSlots[n].therapistId, addedSlots[n].timeRange>> : n \in DOMAIN addedSlots}

\* handleAddSlot and addSlot, first await: getDocs(query(therapistSlots,
\* where therapistId, date, timeRange)).  A slot found throws 'A slot with
\* this time range already exists for this date', which the page alerts.
\* The 'Add' button is disabled while the tab is adding.
AddSlotQuery(k, r) ==
  /\ k \in tabs /\ k \in TherapistClients
  /\ pc[k] = Idle
  /\ pc' = IF <<UserOf(k), r>> \in SlotTuples
           THEN pc
           ELSE [pc EXCEPT ![k] = [Idle EXCEPT !.op = "addSlot", !.range = r]]
  /\ UNCHANGED <<slots, sessions, avail, selected, view, timer, active, now,
                 roomsCreated, tabs, winners, everCompleted, provisionFailed,
                 removed, slotView, addedSlots>>

\* addSlot, second await: addDoc(therapistSlots, {therapistId, date,
\* timeRange, isBooked: false}), then the list is read again.  The list of
\* the page is modelled for the slots that exist at the start; an added slot
\* is kept by its tuple only.  A rejected addDoc is rethrown and alerted.
AddSlotWrite(k, ok) ==
  /\ pc[k].op = "addSlot"
  /\ IF ok
     THEN /\ Len(addedSlots) < MaxAdded
          /\ addedSlots' = Append(addedSlots,
                                  [therapistId |-> UserOf(k), timeRange |-> pc[k].range])
          /\ slotView' = [slotView EXCEPT ![k] =
                            [s \in {x \in SlotIds \ removed : SlotTherapist(x) = UserOf(k)}
                               |-> slots[s].isBooked]]
     ELSE UNCHANGED <<addedSlots, slotView>>
  /\ pc' = [pc EXCEPT ![k] = Idle]
  /\ UNCHANGED <<slots, sessions, avail, selected, view, timer, active, now,
                 roomsCreated, tabs, winners, everCompleted, provisionFailed,
                 removed>>

\* Booking and the status lifecycle: the Therapists page of the patients and
\* the status buttons of the therapist's Sessions page.
Next ==
  \/ \E c \in PatientClients, t \in Therapists : LoadSlots(c, t)
  \/ \E c \in PatientClients, s \in SlotIds, ok \in BOOLEAN : BookAddDoc(c, s, ok)
  \/ \E c \in PatientClients, ok \in BOOLEAN : BookUpdateSlot(c, ok)
  \/ \E k \in TherapistClients : TherapistLoadSessions(k)
  \/ \E k \in TherapistClients, i \in SessionIds, ok \in BOOLEAN,
        st \in {"confirmed", "completed", "cancelled"} : UpdateSessionStatus(k, i, st, ok)
  \/ \E k \in TherapistClients, ok \in BOOLEAN : ReleaseSlot(k, ok)

Spec == Init /\ [][Next]_vars

\* The state after patient p1 has booked slot 1 (and, with status
\* 'confirmed', the therapist has accepted the booking): the slot is booked,
\* no Sessions page is mounted yet.
AfterBooking(status, tabSets) ==
  /\ slots = [s \in SlotIds |-> IF s = 1 THEN BookedSlot("p1") ELSE FreeSlot]
  /\ sessions = <<[NewSession("p1", "t1", 1) EXCEPT !.status = status]>>
  /\ avail = [c \in PatientClients |-> {}]
  /\ selected = [c \in PatientClients |-> "none"]
  /\ view = [c \in Clients |-> <<>>]
  /\ pc = [c \in Clients |-> Idle]
  /\ timer = [c \in TherapistClients |-> {}]
  /\ active = [c \in Clients |-> NoCall]
  /\ now = 0
  /\ roomsCreated = 0
  /\ tabs \in tabSets
  /\ winners = [s \in SlotIds |-> IF s = 1 THEN {"p1"} ELSE {}]
  /\ everCompleted = {}
  /\ provisionFailed = {}
  /\ removed = {}
  /\ slotView = [c \in TherapistClients |-> <<>>]
  /\ addedSlots = <<>>

CallInit ==
  AfterBooking("pending", {{"a1", "k1", "m1"}, {"a1", "a2", "k1"}, {"a1", "k1", "k2"}})

\* The session of a booked slot: the Sessions pages of the patient and of the
\* therapist, the call negotiation and the room provider.  The clock stands
\* still, so a listed pending request never gets old enough to be repeated.
CallNext ==
  \/ \E c \in PatientClients : PatientLoadSessions(c)
  \/ \E c \in PatientClients, i \in SessionIds, ok \in BOOLEAN : RequestVideoCall(c, i, ok)
  \/ \E c \in PatientClients, i \in SessionIds : JoinVideoCall(c, i)
  \/ \E c \in PatientClients : PatientEndVideoCall(c)
  \/ \E k \in TherapistClients : TherapistLoadSessions(k)
  \/ \E k \in TherapistClients, i \in SessionIds, ok \in BOOLEAN,
        st \in {"confirmed", "completed", "cancelled"} : UpdateSessionStatus(k, i, st, ok)
  \/ \E k \in TherapistClients, ok \in BOOLEAN : ReleaseSlot(k, ok)
  \/ \E k \in TherapistClients, i \in SessionIds, ok \in BOOLEAN,
        r \in {"accepted", "declined"} : RespondToVideoCallRequest(k, i, r, ok)
  \/ \E k \in TherapistClients, i \in SessionIds, byTimer \in BOOLEAN, ok \in BOOLEAN :
        CreateMeeting(k, i, byTimer, ok)
  \/ \E k \in TherapistClients, ok \in BOOLEAN : StartVideoCallWrite(k, ok)
  \/ \E k \in TherapistClients, ok \in BOOLEAN : EndVideoCall(k, ok)

CallSpec == CallInit /\ [][CallNext]_vars

\* The negotiation of a call on a confirmed session with the clock running,
\* up to the start of the call, for the patient in one or two tabs and the
\* therapist in one.
TimedInit == AfterBooking("confirmed", {{"a1", "k1"}, {"a1", "a2", "k1"}})

TimedNext ==
  \/ Tick
  \/ \E c \in PatientClients : PatientLoadSessions(c)
  \/ \E c \in PatientClients, i \in SessionIds, ok \in BOOLEAN : RequestVideoCall(c, i, ok)
  \/ \E k \in TherapistClients : TherapistLoadSessions(k)
  \/ \E k \in TherapistClients, i \in SessionIds, ok \in BOOLEAN,
        r \in {"accepted", "declined"} : RespondToVideoCallRequest(k, i, r, ok)
  \/ \E k \in TherapistClients, i \in SessionIds, byTimer \in BOOLEAN, ok \in BOOLEAN :
        CreateMeeting(k, i, byTimer, ok)
  \/ \E k \in TherapistClients, ok \in BOOLEAN : StartVideoCallWrite(k, ok)

TimedSpec == TimedInit /\ [][TimedNext]_vars

\* The calls of a confirmed session as the therapist runs them from two
\* tabs, with the clock running: starting and ending only.
EndInit == AfterBooking("confirmed", {{"k1", "k2"}})

EndNext ==
  \/ Tick
  \/ \E k \in TherapistClients : TherapistLoadSessions(k)
  \/ \E k \in TherapistClients, i \in SessionIds, ok \in BOOLEAN :
        CreateMeeting(k, i, FALSE, ok)
  \/ \E k \in TherapistClients, ok \in BOOLEAN : StartVideoCallWrite(k, ok)
  \/ \E k \in TherapistClients, ok \in BOOLEAN : EndVideoCall(k, ok)

EndSpec == EndInit /\ [][EndNext]_vars

\* Nothing booked, no page mounted, every slot of SlotIds free.
Fresh(tabSets) ==
  /\ slots = [s \in SlotIds |-> FreeSlot]
  /\ sessions = <<>>
  /\ avail = [c \in PatientClients |-> {}]
  /\ selected = [c \in PatientClients |-> "none"]
  /\ view = [c \in Clients |-> <<>>]
  /\ pc = [c \in Clients |-> Idle]
  /\ timer = [c \in TherapistClients |-> {}]
  /\ active = [c \in Clients |-> NoCall]
  /\ now = 0
  /\ roomsCreated = 0
  /\ tabs \in tabSets
  /\ winners = [s \in SlotIds |-> {}]
  /\ everCompleted = {}
  /\ provisionFailed = {}
  /\ removed = {}
  /\ slotView = [c \in TherapistClients |-> <<>>]
  /\ addedSlots = <<>>

\* The slots of a therapist: the Slots page beside the patients' booking and
\* the therapist's status buttons.
SlotInit == Fresh({{"a1", "b1", "k1"}, {"a1", "k1", "k2"}})

SlotNext ==
  \/ Next
  \/ \E k \in TherapistClients : TherapistLoadSlots(k)
  \/ \E k \in TherapistClients, s \in SlotIds, ok \in BOOLEAN : RemoveSlot(k, s, ok)

SlotSpec == SlotInit /\ [][SlotNext]_vars

\* The Slots page alone, in two tabs of therapist t1 and one of t2: adding
\* and removing slots.
AddInit == Fresh({{"k1", "k2", "m1"}})

AddNext ==
  \/ \E k \in TherapistClients : TherapistLoadSlots(k)
  \/ \E k \in TherapistClients, s \in SlotIds, ok \in BOOLEAN : RemoveSlot(k, s, ok)
  \/ \E k \in TherapistClients, r \in TimeRanges : AddSlotQuery(k, r)
  \/ \E k \in TherapistClients, ok \in BOOLEAN : AddSlotWrite(k, ok)

AddSpec == AddInit /\ [][AddNext]_vars

\* ================================================================ claims
Live(i) == sessions[i].status \in {"pending", "confirmed"}

\* C1: of the booking attempts of different patients on one slot that both
\* read the slot as not booked, at most one is told it succeeded: between two
\* releases of a slot, at most one patient gets 'Session booked successfully'.
C1_OneWinnerPerSlot ==
  \A s \in SlotIds : Cardinality(winners[s]) <= 1

\* C2: for every slot with isBooked=true, at most one session in status
\* pending or confirmed references it through slotId.
C2_OneLiveSessionPerBookedSlot ==
  \A s \in SlotIds :
    slots[s].isBooked =>
      Cardinality({i \in SessionIds : sessions[i].slotId = s /\ Live(i)}) <= 1

\* The order of the lifecycle: pending, confirmed, then completed or cancelled.
StatusStep(old, new) ==
  \/ new = old
  \/ old = "pending" /\ new \in {"confirmed", "completed", "cancelled"}
  \/ old = "confirmed" /\ new \in {"completed", "cancelled"}

\* C3: the status values stored for a session over its lifetime are a
\* subsequence of pending, confirmed, completed|cancelled: no step returns to
\* pending, and no step changes a completed or cancelled status.
C3_StatusOnlyMovesForward ==
  [][\A i \in SessionIds : StatusStep(sessions[i].status, sessions'[i].status)]_vars

\* C4: a cancellation does not end with the slot of the cancelled session
\* still reserved: when updateSessionStatus('cancelled') returns, the slot it
\* was to release has isBooked=false, bookedBy and bookedAt cleared, also
\* when the release write failed.
C4_CancelReleasesSlot ==
  [][\A k \in TherapistClients :
       (pc[k].op = "release" /\ pc'[k] = Idle) => slots'[pc[k].slot] = FreeSlot]_vars

\* C5: a request written while the stored negotiation is pending and less
\* than the cooldown has passed since requestedAt leaves the stored
\* negotiation record (status, requestedAt, requestedBy) as it was.
C5_RequestInCooldownChangesNothing ==
  [][\A c \in PatientClients : \A i \in SessionIds :
       ( /\ RequestVideoCall(c, i, TRUE)
         /\ sessions[i].req = "pending"
         /\ now - sessions[i].requestedAt < CooldownMinutes )
       => /\ sessions'[i].req = sessions[i].req
          /\ sessions'[i].requestedAt = sessions[i].requestedAt
          /\ sessions'[i].requestedBy = sessions[i].requestedBy]_vars

\* C6: activating a session whose call is active with a stored room handle
\* asks the provider for no further room and leaves the stored handle as it
\* is.
C6_ActivateIsIdempotent ==
  [][\A i \in SessionIds :
       (sessions[i].vcStatus = "active" /\ sessions[i].room # 0)
       => /\ sessions'[i].room = sessions[i].room
          /\ \A k \in TherapistClients :
               ~(pc[k] = Idle /\ pc'[k].op = "startWrite" /\ pc'[k].sess = i)]_vars

\* C7: a session whose videoCallStatus is active has a room handle and an
\* accepted call request.
C7_ActiveHasRoomAndAccepted ==
  \A i \in SessionIds :
    sessions[i].vcStatus = "active" =>
      sessions[i].room # 0 /\ sessions[i].req = "accepted"

\* C8: the slot of a session that has been completed stays reserved,
\* whatever is done to the session afterwards.
C8_CompletedKeepsSlot ==
  \A i \in everCompleted : slots[sessions[i].slotId].isBooked

\* C9: when the slot write of a booking fails, the booking leaves no session
\* document referencing the slot: a session exists only for a reservation
\* that succeeded.
C9_FailedBookingLeavesNoSession ==
  [][\A c \in PatientClients :
       BookUpdateSlot(c, FALSE) =>
         ~\E i \in 1..Len(sessions') :
            /\ i = pc[c].sess
            /\ sessions'[i].slotId = pc[c].slot
            /\ sessions'[i].patientId = UserOf(c)]_vars

\* The call fields of a session document.
CallFields(s) ==
  <<s.req, s.requestedAt, s.requestedBy, s.respondedAt, s.vcStatus, s.room,
    s.started, s.ended>>

\* C10: request, respond, activate and end change the call fields only of a
\* session whose stored status is confirmed.
C10_CallOnlyOnConfirmed ==
  [][\A i \in SessionIds :
       sessions[i].status # "confirmed"
       => CallFields(sessions'[i]) = CallFields(sessions[i])]_vars

\* C11: a status write that is out of order is not applied: 'confirmed'
\* written by updateSessionStatus while the stored status is not pending, or
\* 'completed' while it is not confirmed, leaves the stored status as it was.
C11_OutOfOrderWriteRejected ==
  [][\A k \in TherapistClients : \A i \in SessionIds :
       /\ (UpdateSessionStatus(k, i, "confirmed", TRUE) /\ sessions[i].status # "pending")
          => sessions'[i].status = sessions[i].status
       /\ (UpdateSessionStatus(k, i, "completed", TRUE) /\ sessions[i].status # "confirmed")
          => sessions'[i].status = sessions[i].status]_vars

\* C12: updateSessionStatus on a session whose stored status is completed or
\* cancelled changes neither that status nor the slot, and does not go on to
\* the release of the slot.
C12_TerminalStatusImmutable ==
  [][\A k \in TherapistClients : \A i \in SessionIds :
       \A st \in {"confirmed", "completed", "cancelled"} :
         (UpdateSessionStatus(k, i, st, TRUE) /\ sessions[i].status \in {"completed", "cancelled"})
         => /\ sessions'[i].status = sessions[i].status
            /\ slots' = slots
            /\ pc'[k].op # "release"]_vars

\* C14: a response is applied only to a request that is stored as pending:
\* respondToVideoCallRequest on a session whose stored request is absent,
\* accepted or declined leaves its status and respondedAt as they were.
C14_RespondOnlyFromPending ==
  [][\A k \in TherapistClients : \A i \in SessionIds : \A r \in {"accepted", "declined"} :
       (RespondToVideoCallRequest(k, i, r, TRUE) /\ sessions[i].req # "pending")
       => /\ sessions'[i].req = sessions[i].req
          /\ sessions'[i].respondedAt = sessions[i].respondedAt]_vars

\* C16: startVideoCall asks the provider for a room, and writes
\* videoCallStatus 'active', only for a session whose stored request is
\* accepted.
C16_ActivateOnlyFromAccepted ==
  [][/\ \A k \in TherapistClients : \A i \in SessionIds : \A byTimer \in BOOLEAN :
          CreateMeeting(k, i, byTimer, TRUE) => sessions[i].req = "accepted"
     /\ \A k \in TherapistClients :
          StartVideoCallWrite(k, TRUE) => sessions[pc[k].sess].req = "accepted"]_vars

\* C18: ending a call is idempotent and only for an active call: no step
\* changes videoCallEnded of a session whose stored videoCallStatus is
\* already 'ended' and stays so, and no step makes 'ended' a call that was
\* never started.
C18_EndIsIdempotent ==
  [][\A i \in SessionIds :
       /\ (sessions[i].vcStatus = "ended" /\ sessions'[i].vcStatus = "ended")
          => sessions'[i].ended = sessions[i].ended
       /\ sessions'[i].vcStatus = "ended" => sessions[i].started]_vars

\* C19: when the patient ends a call that is stored as active, the stored
\* videoCallStatus becomes 'ended' and videoCallEnded is set.
C19_PatientEndWritesStore ==
  [][\A c \in PatientClients :
       (PatientEndVideoCall(c) /\ sessions[active[c].sess].vcStatus = "active")
       => /\ sessions'[active[c].sess].vcStatus = "ended"
          /\ sessions'[active[c].sess].ended # -1]_vars

\* C17: when the provider gives no room (createMeeting throws, or answers
\* without a room id), startVideoCall writes nothing and is over: the
\* session documents, the rooms of the provider, the tab's list and the
\* call it is in are as before, so the start can be repeated.
C17_ProvisioningFailureWritesNothing ==
  [][\A k \in TherapistClients : \A i \in SessionIds : \A byTimer \in BOOLEAN :
       CreateMeeting(k, i, byTimer, FALSE)
       => /\ sessions' = sessions
          /\ roomsCreated' = roomsCreated
          /\ view' = view
          /\ active' = active
          /\ pc'[k] = Idle]_vars

\* A start that failed on an accepted request, followed by one that succeeded.
C17_RetrySucceeded ==
  \E i \in provisionFailed :
    /\ sessions[i].req = "accepted"
    /\ sessions[i].vcStatus = "active"
    /\ sessions[i].room # 0

C15_OnlyCounterpartyResponds ==
  [][/\ \A k \in TherapistClients : \A i \in SessionIds : \A r \in {"accepted", "declined"} :
          RespondToVideoCallRequest(k, i, r, TRUE)
          => /\ UserOf(k) # sessions[i].requestedBy
             /\ UserOf(k) \in {sessions[i].patientId, sessions[i].therapistId}
     /\ \A i \in SessionIds :
          (sessions[i].req = "pending" /\ sessions'[i].req \in {"accepted", "declined"})
          => \E k \in TherapistClients : \E r \in {"accepted", "declined"} :
               /\ RespondToVideoCallRequest(k, i, r, TRUE)
               /\ UserOf(k) # sessions[i].requestedBy
               /\ UserOf(k) \in {sessions[i].patientId, sessions[i].therapistId}]_vars

\* The patient's request has been answered while a tab of a therapist who is
\* no party of the session is open.
C15_AnsweredBesideOtherTherapist ==
  /\ "m1" \in tabs
  /\ \E i \in SessionIds :
       /\ sessions[i].therapistId # UserOf("m1")
       /\ sessions[i].requestedBy = sessions[i].patientId
       /\ sessions[i].req \in {"accepted", "declined"}
       /\ sessions[i].respondedAt

\* C20: removeSlot deletes no slot that is booked in the store when it is
\* called: a slot with isBooked=true stays a document, whatever the
\* therapist's list shows.
C20_BookedSlotNotRemoved ==
  [][\A s \in SlotIds \ removed : slots[s].isBooked => s \notin removed']_vars

\* C21: the store never holds two slot documents with the same therapist,
\* date and time range.
C21_NoDuplicateSlot ==
  /\ \A n, m \in DOMAIN addedSlots : addedSlots[n] = addedSlots[m] => n = m
  /\ \A n \in DOMAIN addedSlots : \A s \in SlotIds \ removed :
       <<addedSlots[n].therapistId, addedSlots[n].timeRange>>
         # <<SlotTherapist(s), SlotRange(s)>>

\* The confirmed sessions a patient tab lists with a pending request.
ListedPending ==
  {<<c, i>> \in PatientClients \X SessionIds :
     /\ i \in DOMAIN view[c]
     /\ view[c][i].status = "confirmed"
     /\ view[c][i].req = "pending"}

C23_RequestAfterDecline ==
  [][\A c \in PatientClients : \A i \in SessionIds :
       /\ ( /\ i \in DOMAIN view[c]
            /\ view[c][i].status = "confirmed"
            /\ view[c][i].req = "declined" )
          => RequestButton(view[c][i], now)
       /\ (RequestVideoCall(c, i, TRUE) /\ sessions[i].req = "declined")
          => /\ sessions'[i].req = "pending"
             /\ sessions'[i].requestedAt = now
             /\ ~sessions'[i].respondedAt]_vars

\* The patient, in one tab, has requested again after a decline and within
\* the cooldown of the first request: the therapist's list still shows the
\* request it declined, the stored one is pending, unanswered and no older
\* than the cooldown (a repeat through the cooldown branch would be later).
C23_RequestedAgainAfterDecline ==
  /\ "a2" \notin tabs
  /\ \E i \in SessionIds :
       /\ i \in DOMAIN view["k1"]
       /\ view["k1"][i].req = "declined"
       /\ sessions[i].req = "pending"
       /\ ~sessions[i].respondedAt
       /\ sessions[i].requestedAt \in 1..CooldownMinutes
       /\ sessions[i].requestedAt = now

\* C24: a patient whose reservation did not last is not told that the booking
\* succeeded: every patient told 'Session booked successfully' for a slot
\* since its last release is the one the booked slot is stored as bookedBy.
C24_ToldBookedIsTheHolder ==
  \A s \in SlotIds \ removed :
    slots[s].isBooked => \A u \in winners[s] : slots[s].bookedBy = u

\* C25: a request never replaces an accepted negotiation: a request sent from
\* a tab that still lists the old pending request, its cooldown over, while
\* the stored request is accepted, leaves the stored request accepted.
C25_StaleRequestKeepsAccepted ==
  [][\A c \in PatientClients : \A i \in SessionIds :
       ( /\ RequestVideoCall(c, i, TRUE)
         /\ view[c][i].req = "pending"
         /\ sessions[i].req = "accepted" )
       => sessions'[i].req = "accepted"]_vars

\* C26: a cancellation whose release write failed does not end as a success:
\* when updateDoc(slotRef, {isBooked: false, ...}) rejects, the tab's list
\* does not go on to show the session as cancelled.
C26_ReleaseFailureNotShownAsSuccess ==
  [][\A k \in TherapistClients :
       (ReleaseSlot(k, FALSE) /\ pc[k].sess \in DOMAIN view[k])
       => view'[k][pc[k].sess].status # "cancelled"]_vars

\* C27: when no booking is in flight, every pending or confirmed session
\* references a slot that is booked, and bookedBy the session's patient.
C27_LiveSessionHoldsItsSlot ==
  (\A c \in PatientClients : pc[c].op # "bookSlot")
  => \A i \in SessionIds :
       (Live(i) /\ sessions[i].slotId # 0)
       => /\ sessions[i].slotId \notin removed
          /\ slots[sessions[i].slotId].isBooked
          /\ slots[sessions[i].slotId].bookedBy = sessions[i].patientId

\* C28: a cancel of a session that is already stored as cancelled, while its
\* slot is booked by another patient's pending or confirmed session, does
\* not go on to release the slot.
C28_StaleCancelKeepsRebookedSlot ==
  [][\A k \in TherapistClients : \A i \in SessionIds :
       ( /\ UpdateSessionStatus(k, i, "cancelled", TRUE)
         /\ sessions[i].status = "cancelled"
         /\ \E j \in SessionIds \ {i} :
              /\ Live(j)
              /\ sessions[j].slotId = sessions[i].slotId
              /\ sessions[j].patientId # sessions[i].patientId
              /\ slots[sessions[j].slotId].isBooked
              /\ slots[sessions[j].slotId].bookedBy = sessions[j].patientId )
       => pc'[k].op # "release"]_vars

\* C29: a therapist tab that is in a call for a session holds the room that
\* is stored on the session.
C29_TherapistHoldsStoredRoom ==
  \A k \in TherapistClients :
    active[k] # NoCall => sessions[active[k].sess].room = active[k].room

\* What a run needs in order to write videoCallStatus 'ended' on session i,
\* now or later: a tab of its therapist that is in the call (End Call), or
\* about to be (a start in flight, the timer of an accept), or that can
\* start one: 'Start Video Call' is rendered for a session listed as
\* confirmed, which a tab lists, can make of one it lists as pending, or
\* gets by reloading while the stored status is pending or confirmed.  The
\* patient's page writes no videoCallStatus.
EndStillPossible(i) ==
  \/ sessions[i].status \in {"pending", "confirmed"}
  \/ \E k \in TherapistClients \cap tabs :
       \/ active[k].sess = i
       \/ pc[k].op = "startWrite" /\ pc[k].sess = i
       \/ i \in timer[k]
       \/ i \in DOMAIN view[k] /\ view[k][i].status \in {"pending", "confirmed"}

\* A session without it never gets it back: no operation leads out.
NoWayBackToEnd ==
  [][\A i \in SessionIds : ~EndStillPossible(i) => ~EndStillPossible(i)']_vars

\* C30: an active call can always be brought to ended: every session whose
\* stored videoCallStatus is active still has a way to an operation that
\* writes 'ended'.
C30_ActiveCallCanBeEnded ==
  \A i \in SessionIds : sessions[i].vcStatus = "active" => EndStillPossible(i)

====
